---- MODULE Spec2Model ----
(***************************************************************************)
(* A state-machine model of decompile-rs: the JVM class-file decoder of    *)
(* src/src/decompile.rs over the class model of src/src/types.rs.          *)
(*                                                                         *)
(* The input file is a sequence of bytes fixed in the initial state.  The  *)
(* decoder advances a cursor `pos` over it; `pc` is the place of           *)
(* Decompile::decompile the control is at, `stack` the chain of open       *)
(* read_field_info / read_method_info / read_attribute_info("Code") calls. *)
(* A u32 is kept as the pair <<high 16 bits, low 16 bits>>.                *)
(***************************************************************************)
EXTENDS Integers, Sequences, FiniteSets, TLC

VARIABLES
    input,                \* the bytes of the file
    overflow_checks,      \* build profile: TRUE = overflow checks on (debug)
    pos,                  \* reader.stream_position()
    pc,                   \* the step of Decompile::decompile to run next
    result,               \* what decompile has returned, or that it panicked
    eof,                  \* a read_exact asked for more bytes than remained
    class_file,           \* the ClassFile under construction
    constant_pool_count,  \* the local of the same name
    cp_left,              \* iterations left of the constant-pool loop
    interfaces_left,      \* iterations left of the interface loop
    fields_left,          \* iterations left of the field loop
    methods_left,         \* iterations left of the method loop
    stack,                \* open member / Code decodes, innermost last
    lookup,               \* the last get_constant_pool_entry call
    attr_name,            \* the last attribute name read_attribute_info resolved
    attr_length,          \* the `length` read_attribute_info read before that name
    attr                  \* the last Attribute read_attribute_info returned

vars == <<input, overflow_checks, pos, pc, result, eof, class_file,
          constant_pool_count, cp_left, interfaces_left, fields_left,
          methods_left, stack, lookup, attr_name, attr_length, attr>>

----------------------------------------------------------------------------
(* Bytes and fixed-width integers                                          *)

Byte == 0..255

U16Bytes(n) == <<n \div 256, n % 256>>

U32Bytes(hi, lo) == U16Bytes(hi) \o U16Bytes(lo)

\* CAFE_BABE with its two halves swapped
BABE_CAFE == <<47806, 51966>>

\* const CAFE_BABE: u32 = 0xCAFE_BABE, as <<0xCAFE, 0xBABE>>
CAFE_BABE == <<51966, 47806>>

\* read_exact succeeds iff n more bytes remain at p
CanRead(p, n) == p + n <= Len(input)

\* u8::from_be_bytes / u16::from_be_bytes / u32::from_be_bytes at offset p
U8At(p) == input[p + 1]

U16At(p) == input[p + 1] * 256 + input[p + 2]

U32At(p) == <<U16At(p), U16At(p + 2)>>

\* a u32 used as a usize byte count: n more bytes remain at p
CanReadU32(p, n) == n[1] < 32768 /\ CanRead(p, n[1] * 65536 + n[2])

U32AsInt(n) == n[1] * 65536 + n[2]

\* i32::from_be_bytes (two's complement)
I32At(p) ==
    LET b0 == input[p + 1]
        rest == input[p + 2] * 65536 + input[p + 3] * 256 + input[p + 4]
    IN  IF b0 >= 128 THEN (b0 - 256) * 16777216 + rest
                     ELSE b0 * 16777216 + rest

Bytes(p, n) == [i \in 1..n |-> input[p + i]]

----------------------------------------------------------------------------
(* std::str::from_utf8: the well-formed UTF-8 byte sequences               *)

IsCont(b) == b >= 128 /\ b <= 191

RECURSIVE ValidUtf8(_)
ValidUtf8(s) ==
    IF Len(s) = 0 THEN TRUE
    ELSE LET b == s[1]
             n == Len(s)
             Rest(k) == SubSeq(s, k + 1, n)
         IN  IF b < 128 THEN ValidUtf8(Rest(1))
             ELSE IF b >= 194 /\ b <= 223
                  THEN n >= 2 /\ IsCont(s[2]) /\ ValidUtf8(Rest(2))
             ELSE IF b >= 224 /\ b <= 239
                  THEN /\ n >= 3
                       /\ IsCont(s[2]) /\ IsCont(s[3])
                       /\ (b = 224 => s[2] >= 160)
                       /\ (b = 237 => s[2] <= 159)
                       /\ ValidUtf8(Rest(3))
             ELSE IF b >= 240 /\ b <= 244
                  THEN /\ n >= 4
                       /\ IsCont(s[2]) /\ IsCont(s[3]) /\ IsCont(s[4])
                       /\ (b = 240 => s[2] >= 144)
                       /\ (b = 244 => s[2] <= 143)
                       /\ ValidUtf8(Rest(4))
             ELSE FALSE

----------------------------------------------------------------------------
(* Outcomes of decompile                                                   *)

Running == [status |-> "running", error |-> "", code |-> 0, offset |-> 0,
            magic |-> <<0, 0>>]

Ok == [Running EXCEPT !.status = "ok"]

Panic(msg) == [Running EXCEPT !.status = "panic", !.error = msg]

Err(name, code, offset) ==
    [Running EXCEPT !.status = "err", !.error = name, !.code = code,
                    !.offset = offset]

ErrMagic(m) ==
    [Running EXCEPT !.status = "err", !.error = "InvalidMagicNumber",
                    !.magic = m]

\* .expect("invalid class file") on a failed read_exact
ReadPanic == Panic("invalid class file")

\* `?` on a failed read_exact: DecompileError::IOError(UnexpectedEof)
IoErr == Err("IOError", 0, 0)

----------------------------------------------------------------------------
(* Constant-pool entries: CpInfo { tag, info: Some(ConstantPoolType) }.     *)
(* The payload fields keep the names of types.rs; an Integer's value is     *)
(* `ivalue`, and a Float/Long/Double keeps its big-endian bytes in `bits`.  *)

\* tags whose payload is one u16
OneIndexTags == {7, 8, 16, 19, 20}

\* tags whose payload is two u16
TwoIndexTags == {9, 10, 11, 12, 17, 18}

\* the result of decoding one entry at p (the offset of its tag byte):
\* st is "ok" (entry, end offset), or the outcome that ends decompile
Decoded(entry, p) == [st |-> "ok", entry |-> entry, pos |-> p, eof |-> FALSE,
                      result |-> Running]

Failed(res, p, atEof) == [st |-> "fail", entry |-> [tag |-> 0], pos |-> p,
                          eof |-> atEof, result |-> res]

\* fn cp_utf8: u16 length, the bytes, from_utf8(..).unwrap()
cp_utf8(p) ==
    IF ~CanRead(p, 2) THEN Failed(ReadPanic, Len(input), TRUE)
    ELSE LET len == U16At(p) IN
         IF ~CanRead(p + 2, len) THEN Failed(ReadPanic, Len(input), TRUE)
         ELSE IF ~ValidUtf8(Bytes(p + 2, len))
              THEN Failed(Panic("from_utf8 unwrap"), p + 2 + len, FALSE)
              ELSE Decoded([tag |-> 1, len |-> len,
                            value |-> Bytes(p + 2, len)], p + 2 + len)

\* fn cp_integer: read_exact(4)?, i32::from_be_bytes
cp_integer(p) ==
    IF ~CanRead(p, 4) THEN Failed(IoErr, Len(input), TRUE)
    ELSE Decoded([tag |-> 3, ivalue |-> I32At(p)], p + 4)

\* fn cp_float / cp_long / cp_double: read_exact(n)?, from_be_bytes
cp_wide(tag, p, n) ==
    IF ~CanRead(p, n) THEN Failed(IoErr, Len(input), TRUE)
    ELSE Decoded([tag |-> tag, bits |-> Bytes(p, n)], p + n)

\* TagOffset, had stream_position() been taken after the tag byte was read
TagOffsetAfterRead(p) == p + 1

\* the offset InvalidConstantPoolTag reports: stream_position() taken
\* before the tag byte is read
TagOffset(p) == p

\* the tags the match of the constant-pool loop has an arm for
KnownTags == {1, 3, 4, 5, 6, 7, 8, 9, 10, 11, 12, 15, 16, 17, 18, 19, 20}

\* one iteration of the constant-pool loop up to the CpInfo it builds
DecodeCpInfo(p) ==
    IF ~CanRead(p, 1) THEN Failed(ReadPanic, Len(input), TRUE)
    ELSE LET tag == U8At(p)
             q == p + 1
         IN  IF tag \notin KnownTags
             THEN Failed(Err("InvalidConstantPoolTag", tag, TagOffset(p)), q, FALSE)
             ELSE IF tag = 1 THEN cp_utf8(q)
             ELSE IF tag = 3 THEN cp_integer(q)
             ELSE IF tag = 4 THEN cp_wide(4, q, 4)
             ELSE IF tag \in {5, 6} THEN cp_wide(tag, q, 8)
             ELSE IF tag \in OneIndexTags
                  THEN IF ~CanRead(q, 2) THEN Failed(ReadPanic, Len(input), TRUE)
                       ELSE Decoded([tag |-> tag, idx |-> U16At(q)], q + 2)
             ELSE IF tag \in TwoIndexTags
                  THEN IF ~CanRead(q, 4) THEN Failed(ReadPanic, Len(input), TRUE)
                       ELSE Decoded([tag |-> tag, idx |-> U16At(q),
                                     idx2 |-> U16At(q + 2)], q + 4)
             ELSE \* 15: MethodHandle { ref_kind: u8, ref_idx: u16 }
                  IF ~CanRead(q, 3) THEN Failed(ReadPanic, Len(input), TRUE)
                  ELSE Decoded([tag |-> tag, ref_kind |-> U8At(q),
                                idx |-> U16At(q + 1)], q + 3)

----------------------------------------------------------------------------
(* Pool lookup                                                             *)

NoLookup == [who |-> "", index |-> 0, status |-> "none", slot |-> 0]

\* ClassFile::get_constant_pool_entry(index) = constant_pool.get(index - 1);
\* `index - 1` on usize 0 panics with overflow checks on and wraps to
\* usize::MAX (no such element) with them off.  slot is the 1-based place
\* in cp_info of the entry returned.
get_constant_pool_entry(cf, index) ==
    IF index = 0
    THEN IF overflow_checks THEN [status |-> "panic", slot |-> 0]
                            ELSE [status |-> "none", slot |-> 0]
    ELSE IF index - 1 < Len(cf.constant_pool)
         THEN [status |-> "some", slot |-> index]
         ELSE [status |-> "none", slot |-> 0]

Looked(who, index, got) ==
    [who |-> who, index |-> index, status |-> got.status, slot |-> got.slot]

\* resolve_utf8_cp_entry, had it taken the text of any entry it finds
\* without looking at the entry's kind
ResolveAnyEntry(cf, index, p) ==
    LET got == get_constant_pool_entry(cf, index) IN
    IF got.status = "panic"
    THEN [st |-> "fail", value |-> <<>>,
          result |-> Panic("attempt to subtract with overflow")]
    ELSE IF got.status = "none"
    THEN [st |-> "fail", value |-> <<>>,
          result |-> Err("NoSuchConstantPoolEntry", index, p)]
    ELSE [st |-> "ok",
          value |-> IF cf.constant_pool[got.slot].tag = 1
                    THEN cf.constant_pool[got.slot].value ELSE <<>>,
          result |-> Running]

\* fn resolve_utf8_cp_entry(reader, class_file, index) with the reader at p
resolve_utf8_cp_entry(cf, index, p) ==
    LET got == get_constant_pool_entry(cf, index) IN
    IF got.status = "panic"
    THEN [st |-> "fail", value |-> <<>>,
          result |-> Panic("attempt to subtract with overflow")]
    ELSE IF got.status = "none"
    THEN [st |-> "fail", value |-> <<>>,
          result |-> Err("NoSuchConstantPoolEntry", index, p)]
    ELSE IF cf.constant_pool[got.slot].tag = 1
    THEN [st |-> "ok", value |-> cf.constant_pool[got.slot].value,
          result |-> Running]
    ELSE [st |-> "fail", value |-> <<>>,
          result |-> Err("InvalidUtf8ConstantPoolEntry", index, 0)]

----------------------------------------------------------------------------
(* read_attribute_info                                                     *)

\* the attribute names the match of read_attribute_info has an arm for
ConstantValueName == <<67, 111, 110, 115, 116, 97, 110, 116, 86, 97, 108, 117, 101>>

CodeName == <<67, 111, 100, 101>>

LineNumberTableName ==
    <<76, 105, 110, 101, 78, 117, 109, 98, 101, 114, 84, 97, 98, 108, 101>>

SourceFileName == <<83, 111, 117, 114, 99, 101, 70, 105, 108, 101>>

MethodParametersName ==
    <<77, 101, 116, 104, 111, 100, 80, 97, 114, 97, 109, 101, 116, 101, 114, 115>>

InnerClassesName == <<73, 110, 110, 101, 114, 67, 108, 97, 115, 115, 101, 115>>

KnownAttributeNames ==
    {ConstantValueName, CodeName, LineNumberTableName, SourceFileName,
     MethodParametersName, InnerClassesName}

NoAttr == [kind |-> "None"]

\* attr_name before any name was resolved; afterwards <<name>>
NoName == <<>>

\* the i-th (from 0) u16 of the record of `width` bytes that starts at p
Cell(p, i) == U16At(p + 2 * i)

ExceptionTableAt(p, n) ==
    [i \in 1..n |-> [start_pc |-> Cell(p + 8 * (i - 1), 0),
                     end_pc |-> Cell(p + 8 * (i - 1), 1),
                     handler_pc |-> Cell(p + 8 * (i - 1), 2),
                     catch_type |-> Cell(p + 8 * (i - 1), 3)]]

LineNumberTableAt(p, n) ==
    [i \in 1..n |-> [start_pc |-> Cell(p + 4 * (i - 1), 0),
                     line_number |-> Cell(p + 4 * (i - 1), 1)]]

MethodParametersAt(p, n) ==
    [i \in 1..n |-> [name_index |-> Cell(p + 4 * (i - 1), 0),
                     access_flags |-> Cell(p + 4 * (i - 1), 1)]]

InnerClassesAt(p, n) ==
    [i \in 1..n |-> [inner_class_info_index |-> Cell(p + 8 * (i - 1), 0),
                     outer_class_info_index |-> Cell(p + 8 * (i - 1), 1),
                     inner_name_index |-> Cell(p + 8 * (i - 1), 2),
                     inner_class_access_flags |-> Cell(p + 8 * (i - 1), 3)]]

\* what one call of read_attribute_info comes to, up to its first nested
\* call: st = "ok" (attr returned), "code" (a Code attribute whose nested
\* table is still to be read) or "fail" (result ends decompile)
AttrRead(st, a, p, res, atEof, lk, name) ==
    [st |-> st, attr |-> a, pos |-> p, result |-> res, eof |-> atEof,
     lookup |-> lk, name |-> name]

AttrEof(lk, name) == AttrRead("fail", NoAttr, Len(input), ReadPanic, TRUE, lk, name)

\* the arm "ConstantValue": assert_eq!(length, 2), one u16
ConstantValueArm(index, length, p, lk, name) ==
    IF length # <<0, 2>>
    THEN AttrRead("fail", NoAttr, p, Panic("assertion failed: length == 2"),
                  FALSE, lk, name)
    ELSE IF ~CanRead(p, 2) THEN AttrEof(lk, name)
    ELSE AttrRead("ok", [kind |-> "ConstantValue",
                         attribute_name_index |-> index,
                         attribute_length |-> length,
                         constant_value_index |-> U16At(p)],
                  p + 2, Running, FALSE, lk, name)

\* the arm "Code" up to the loop over its nested attributes
CodeArm(index, length, p, lk, name) ==
    IF ~CanRead(p, 8) THEN AttrEof(lk, name)
    ELSE LET code_length == U32At(p + 4)
             c == p + 8
         IN
         IF ~CanReadU32(c, code_length) THEN AttrEof(lk, name)
         ELSE LET e == c + U32AsInt(code_length) IN
              IF ~CanRead(e, 2) THEN AttrEof(lk, name)
              ELSE LET exception_table_length == U16At(e)
                       a == e + 2 + 8 * exception_table_length
                   IN
                   IF ~CanRead(e + 2, 8 * exception_table_length + 2)
                   THEN AttrEof(lk, name)
                   ELSE AttrRead("code",
                            [kind |-> "Code",
                             attribute_name_index |-> index,
                             attribute_length |-> length,
                             max_stack |-> U16At(p),
                             max_locals |-> U16At(p + 2),
                             code_length |-> code_length,
                             code |-> Bytes(c, U32AsInt(code_length)),
                             exception_table_length |-> exception_table_length,
                             exception_table |->
                                 ExceptionTableAt(e + 2, exception_table_length),
                             attributes_count |-> U16At(a),
                             attributes |-> <<>>],
                            a + 2, Running, FALSE, lk, name)

\* the arm "LineNumberTable"
LineNumberTableArm(index, length, p, lk, name) ==
    IF ~CanRead(p, 2) THEN AttrEof(lk, name)
    ELSE LET n == U16At(p) IN
         IF ~CanRead(p + 2, 4 * n) THEN AttrEof(lk, name)
         ELSE AttrRead("ok", [kind |-> "LineNumberTable",
                              attribute_name_index |-> index,
                              attribute_length |-> length,
                              line_number_table_length |-> n,
                              line_number_table |-> LineNumberTableAt(p + 2, n)],
                       p + 2 + 4 * n, Running, FALSE, lk, name)

\* the arm "SourceFile"
SourceFileArm(index, length, p, lk, name) ==
    IF ~CanRead(p, 2) THEN AttrEof(lk, name)
    ELSE AttrRead("ok", [kind |-> "SourceFile",
                         attribute_name_index |-> index,
                         attribute_length |-> length,
                         sourcefile_index |-> U16At(p)],
                  p + 2, Running, FALSE, lk, name)

\* the arm "MethodParameters": a u8 count
MethodParametersArm(index, length, p, lk, name) ==
    IF ~CanRead(p, 1) THEN AttrEof(lk, name)
    ELSE LET n == U8At(p) IN
         IF ~CanRead(p + 1, 4 * n) THEN AttrEof(lk, name)
         ELSE AttrRead("ok", [kind |-> "MethodParameters",
                              attribute_name_index |-> index,
                              attribute_length |-> length,
                              parameters_count |-> n,
                              parameters |-> MethodParametersAt(p + 1, n)],
                       p + 1 + 4 * n, Running, FALSE, lk, name)

\* the arm "InnerClasses"
InnerClassesArm(index, length, p, lk, name) ==
    IF ~CanRead(p, 2) THEN AttrEof(lk, name)
    ELSE LET n == U16At(p) IN
         IF ~CanRead(p + 2, 8 * n) THEN AttrEof(lk, name)
         ELSE AttrRead("ok", [kind |-> "InnerClasses",
                              attribute_name_index |-> index,
                              attribute_length |-> length,
                              number_of_classes |-> n,
                              classes |-> InnerClassesAt(p + 2, n)],
                       p + 2 + 8 * n, Running, FALSE, lk, name)

\* the arm `_`: todo!("ignoring {attr_name} for now")
UnknownArm(index, length, p, lk, name) ==
    AttrRead("fail", NoAttr, p, Panic("not yet implemented: ignoring attribute"),
             FALSE, lk, name)

\* fn read_attribute_info with the reader at p, up to its first nested call
read_attribute_info(cf, p) ==
    IF ~CanRead(p, 6) THEN AttrEof(lookup, attr_name)
    ELSE LET index == U16At(p)
             length == U32At(p + 2)
             q == p + 6
             lk == Looked("attr_name", index, get_constant_pool_entry(cf, index))
             name == resolve_utf8_cp_entry(cf, index, q)
         IN
         IF name.st = "fail"
         THEN AttrRead("fail", NoAttr, q, name.result, FALSE, lk, attr_name)
         ELSE LET v == name.value
                  n == <<v>>
              IN
              IF v = ConstantValueName THEN ConstantValueArm(index, length, q, lk, n)
              ELSE IF v = CodeName THEN CodeArm(index, length, q, lk, n)
              ELSE IF v = LineNumberTableName
                   THEN LineNumberTableArm(index, length, q, lk, n)
              ELSE IF v = SourceFileName THEN SourceFileArm(index, length, q, lk, n)
              ELSE IF v = MethodParametersName
                   THEN MethodParametersArm(index, length, q, lk, n)
              ELSE IF v = InnerClassesName
                   THEN InnerClassesArm(index, length, q, lk, n)
              ELSE UnknownArm(index, length, q, lk, n)

----------------------------------------------------------------------------
(* read_field_info: the ConstantValue fold                                 *)

\* format!("{value}") of an i32: its decimal digits, as ASCII
RECURSIVE DigitsOf(_)
DigitsOf(v) ==
    IF v >= 0
    THEN IF v < 10 THEN <<48 + v>> ELSE DigitsOf(v \div 10) \o <<48 + (v % 10)>>
    ELSE \* v < 0: the digits of |v|, without negating v
         LET m == v % 10
             last == IF m = 0 THEN 0 ELSE 10 - m
             rest == IF m = 0 THEN v \div 10 ELSE (v \div 10) + 1
         IN  IF rest = 0 THEN <<48 + last>> ELSE DigitsOf(rest) \o <<48 + last>>

FormatI32(v) == IF v < 0 THEN <<45>> \o DigitsOf(v) ELSE DigitsOf(v)

\* format!("{value}") of an f32, f64 or i64: the text is not interpreted,
\* the value's big-endian bytes stand for it
FormatBits(bits) == bits

\* the index read_field_info puts into NoSuchConstantPoolEntry when the
\* constant value (or its string) has no pool entry
MissingValueIndex(name_index, constant_value_index, string_idx) == name_index

\* the arm Attribute::ConstantValue of read_field_info, reader at p:
\* st = "ok" (value: the new field_info.value) or "fail" (result)
Folded(st, value, res, lk) ==
    [st |-> st, value |-> value, result |-> res, lookup |-> lk]

\* a field that never counts as having its value
ValueNeverSet(field_info) == FALSE

\* field_info.value.is_some()
ValueAlreadySet(field_info) == field_info.value # <<>>

FoldConstantValue(cf, field_info, name_index, constant_value_index, p, lk0) ==
    LET got == get_constant_pool_entry(cf, constant_value_index)
        lk == Looked("constant_value", constant_value_index, got)
    IN
    IF ValueAlreadySet(field_info)
    THEN Folded("fail", <<>>,
                Panic("not yet implemented: only one value allowed"), lk0)
    ELSE IF got.status = "panic"
    THEN Folded("fail", <<>>, Panic("attempt to subtract with overflow"), lk)
    ELSE IF got.status = "none"
    THEN Folded("fail", <<>>,
                Err("NoSuchConstantPoolEntry",
                    MissingValueIndex(name_index, constant_value_index, 0), p), lk)
    ELSE LET e == cf.constant_pool[got.slot] IN
         IF e.tag \in {4, 5, 6} THEN Folded("ok", <<FormatBits(e.bits)>>, Running, lk)
         ELSE IF e.tag = 3 THEN Folded("ok", <<FormatI32(e.ivalue)>>, Running, lk)
         ELSE IF e.tag = 8
         THEN LET got2 == get_constant_pool_entry(cf, e.idx)
                  lk2 == Looked("string", e.idx, got2)
              IN
              IF got2.status = "panic"
              THEN Folded("fail", <<>>,
                          Panic("attempt to subtract with overflow"), lk2)
              ELSE IF got2.status = "none"
              THEN Folded("fail", <<>>,
                          Err("NoSuchConstantPoolEntry",
                              MissingValueIndex(name_index, constant_value_index,
                                                e.idx), p), lk2)
              ELSE IF cf.constant_pool[got2.slot].tag = 1
              THEN Folded("ok", <<cf.constant_pool[got2.slot].value>>, Running, lk2)
              ELSE Folded("fail", <<>>,
                          Err("InvalidUtf8ConstantPoolEntry", e.idx, 0), lk2)
         ELSE Folded("fail", <<>>,
                     Panic("not yet implemented: invalid field value type"), lk)

----------------------------------------------------------------------------
(* Open calls                                                              *)

\* a frame of `stack`: a read_field_info ("field") or read_method_info
\* ("method") call, or a read_attribute_info call in its "Code" arm
\* ("code"); obj is what the call has built so far, left the iterations
\* left of its attribute loop
Frame(ctx, left, obj, name_index) ==
    [ctx |-> ctx, left |-> left, obj |-> obj, name_index |-> name_index]

Top == stack[Len(stack)]

Pop(st) == SubSeq(st, 1, Len(st) - 1)

\* the frame f after its loop pushed attribute a (`.attributes.push`)
Pushed(f, a) ==
    [f EXCEPT !.left = f.left - 1,
              !.obj = [f.obj EXCEPT !.attributes = Append(f.obj.attributes, a)]]

\* read_attribute_info has returned a to the call on top of `callers`,
\* with the reader at p: the body of the caller's attribute loop
AttributeReturned(callers, a, p, lk) ==
    LET f == callers[Len(callers)] IN
    IF f.ctx = "field" /\ a.kind = "ConstantValue"
    THEN LET fold == FoldConstantValue(class_file, f.obj, f.name_index,
                                       a.constant_value_index, p, lk)
         IN  /\ lookup' = fold.lookup
             /\ result' = fold.result
             /\ stack' = IF fold.st = "fail" THEN callers
                         ELSE [callers EXCEPT ![Len(callers)] =
                                  Pushed([f EXCEPT !.obj.value = fold.value], a)]
    ELSE /\ lookup' = lk
         /\ result' = Running
         /\ stack' = [callers EXCEPT ![Len(callers)] = Pushed(f, a)]

----------------------------------------------------------------------------
(* Decompile::decompile, step by step                                      *)

\* ClassFile::default()
NewClassFile ==
    [magic |-> <<0, 0>>, minor_version |-> 0, major_version |-> 0,
     constant_pool |-> <<>>, access_flags |-> 0, this_class |-> 0,
     super_class |-> 0, interfaces_count |-> 0, interfaces |-> <<>>,
     fields_count |-> 0, fields |-> <<>>, methods_count |-> 0,
     methods |-> <<>>, attributes_count |-> 0, attributes |-> <<>>]

Active == result.status = "running"

\* a panicking read (.expect) of n bytes at pos found fewer than n
ShortRead ==
    /\ pos' = Len(input)
    /\ eof' = TRUE
    /\ result' = ReadPanic

\* let magic = read_u32(..); if magic != CAFE_BABE { return Err(..) }
ReadMagic ==
    /\ Active /\ pc = "magic"
    /\ IF ~CanRead(pos, 4)
       THEN ShortRead /\ UNCHANGED <<pc, class_file>>
       ELSE /\ pos' = pos + 4
            /\ eof' = eof
            /\ IF U32At(pos) # CAFE_BABE
               THEN result' = ErrMagic(U32At(pos)) /\ UNCHANGED <<pc, class_file>>
               ELSE /\ result' = result
                    /\ pc' = "minor_version"
                    /\ class_file' = [NewClassFile EXCEPT !.magic = U32At(pos)]
    /\ UNCHANGED <<input, overflow_checks, constant_pool_count, cp_left,
                   interfaces_left, fields_left, methods_left, stack, lookup,
                   attr_name, attr_length,
                   attr>>

\* class_file.<field> = read_u16(..), then on to the step `next`
ReadHeaderU16(at, field, next) ==
    /\ Active /\ pc = at
    /\ IF ~CanRead(pos, 2)
       THEN ShortRead /\ UNCHANGED <<pc, class_file>>
       ELSE /\ pos' = pos + 2
            /\ UNCHANGED <<eof, result>>
            /\ pc' = next
            /\ class_file' = [class_file EXCEPT ![field] = U16At(pos)]

ReadMinorVersion ==
    /\ ReadHeaderU16("minor_version", "minor_version", "major_version")
    /\ UNCHANGED <<input, overflow_checks, constant_pool_count, cp_left,
                   interfaces_left, fields_left, methods_left, stack, lookup,
                   attr_name, attr_length,
                   attr>>

ReadMajorVersion ==
    /\ ReadHeaderU16("major_version", "major_version", "constant_pool_count")
    /\ UNCHANGED <<input, overflow_checks, constant_pool_count, cp_left,
                   interfaces_left, fields_left, methods_left, stack, lookup,
                   attr_name, attr_length,
                   attr>>

\* the bound of `for _ in 0..constant_pool_count - 2`: the u16 subtraction
\* panics on overflow with overflow checks on and wraps with them off
LoopBound(n) == n - 2

ConstantPoolLoopBound(n) ==
    IF LoopBound(n) >= 0 THEN [st |-> "ok", n |-> LoopBound(n)]
    ELSE IF overflow_checks THEN [st |-> "panic", n |-> 0]
    ELSE [st |-> "ok", n |-> LoopBound(n) + 65536]

\* let constant_pool_count = read_u16(..), and the loop's range
ReadConstantPoolCount ==
    /\ Active /\ pc = "constant_pool_count"
    /\ IF ~CanRead(pos, 2)
       THEN ShortRead /\ UNCHANGED <<pc, constant_pool_count, cp_left>>
       ELSE LET n == U16At(pos)
                b == ConstantPoolLoopBound(n)
            IN  /\ pos' = pos + 2
                /\ eof' = eof
                /\ constant_pool_count' = n
                /\ IF b.st = "panic"
                   THEN /\ result' = Panic("attempt to subtract with overflow")
                        /\ UNCHANGED <<pc, cp_left>>
                   ELSE /\ result' = result
                        /\ pc' = "constant_pool"
                        /\ cp_left' = b.n
    /\ UNCHANGED <<input, overflow_checks, class_file, interfaces_left,
                   fields_left, methods_left, stack, lookup, attr_name, attr_length,
                   attr>>

\* ClassFile::add_constant_pool_entry
add_constant_pool_entry(cf, cp_info) ==
    [cf EXCEPT !.constant_pool = Append(cf.constant_pool, cp_info)]

\* one iteration of the constant-pool loop
ReadCpInfo ==
    /\ Active /\ pc = "constant_pool" /\ cp_left > 0
    /\ LET d == DecodeCpInfo(pos) IN
       /\ pos' = d.pos
       /\ eof' = (eof \/ d.eof)
       /\ result' = d.result
       /\ IF d.st = "ok"
          THEN /\ class_file' = add_constant_pool_entry(class_file, d.entry)
               /\ cp_left' = cp_left - 1
          ELSE UNCHANGED <<class_file, cp_left>>
    /\ UNCHANGED <<input, overflow_checks, pc, constant_pool_count,
                   interfaces_left, fields_left, methods_left, stack, lookup,
                   attr_name, attr_length,
                   attr>>

\* access_flags read while the pool loop still has iterations to run
ReadAccessFlagsEarly ==
    /\ ReadHeaderU16("constant_pool", "access_flags", "this_class")
    /\ UNCHANGED <<input, overflow_checks, constant_pool_count, cp_left,
                   interfaces_left, fields_left, methods_left, stack, lookup,
                   attr_name, attr_length, attr>>

\* class_file.access_flags = read_u16(..), once the pool loop is over
ReadAccessFlags ==
    /\ cp_left = 0
    /\ ReadHeaderU16("constant_pool", "access_flags", "this_class")
    /\ UNCHANGED <<input, overflow_checks, constant_pool_count, cp_left,
                   interfaces_left, fields_left, methods_left, stack, lookup,
                   attr_name, attr_length,
                   attr>>

ReadThisClass ==
    /\ ReadHeaderU16("this_class", "this_class", "super_class")
    /\ UNCHANGED <<input, overflow_checks, constant_pool_count, cp_left,
                   interfaces_left, fields_left, methods_left, stack, lookup,
                   attr_name, attr_length,
                   attr>>

ReadSuperClass ==
    /\ ReadHeaderU16("super_class", "super_class", "interfaces_count")
    /\ UNCHANGED <<input, overflow_checks, constant_pool_count, cp_left,
                   interfaces_left, fields_left, methods_left, stack, lookup,
                   attr_name, attr_length,
                   attr>>

ReadInterfacesCount ==
    /\ ReadHeaderU16("interfaces_count", "interfaces_count", "interfaces")
    /\ interfaces_left' = IF CanRead(pos, 2) THEN U16At(pos) ELSE interfaces_left
    /\ UNCHANGED <<input, overflow_checks, constant_pool_count, cp_left,
                   fields_left, methods_left, stack, lookup, attr_name, attr_length,
                   attr>>

\* one iteration of the interface loop: let value = read_u8(..)
ReadInterface ==
    /\ Active /\ pc = "interfaces" /\ interfaces_left > 0
    /\ IF ~CanRead(pos, 1)
       THEN ShortRead /\ UNCHANGED <<class_file, interfaces_left>>
       ELSE /\ pos' = pos + 1
            /\ UNCHANGED <<eof, result>>
            /\ class_file' = [class_file EXCEPT !.interfaces = Append(@, U8At(pos))]
            /\ interfaces_left' = interfaces_left - 1
    /\ UNCHANGED <<input, overflow_checks, pc, constant_pool_count, cp_left,
                   fields_left, methods_left, stack, lookup, attr_name, attr_length,
                   attr>>

ReadFieldsCount ==
    /\ interfaces_left = 0
    /\ ReadHeaderU16("interfaces", "fields_count", "fields")
    /\ fields_left' = IF CanRead(pos, 2) THEN U16At(pos) ELSE fields_left
    /\ UNCHANGED <<input, overflow_checks, constant_pool_count, cp_left,
                   interfaces_left, methods_left, stack, lookup, attr_name, attr_length,
                   attr>>

\* fn read_field_info up to its attribute loop
ReadFieldInfo ==
    /\ Active /\ pc = "fields" /\ fields_left > 0 /\ stack = <<>>
    /\ IF ~CanRead(pos, 8)
       THEN ShortRead /\ UNCHANGED <<stack, lookup>>
       ELSE LET access_flags == U16At(pos)
                name_index == U16At(pos + 2)
                descriptor_index == U16At(pos + 4)
                attributes_count == U16At(pos + 6)
                p == pos + 8
                field_name == resolve_utf8_cp_entry(class_file, name_index, p)
                field_descriptor ==
                    resolve_utf8_cp_entry(class_file, descriptor_index, p)
            IN  /\ pos' = p
                /\ eof' = eof
                /\ IF field_name.st = "fail"
                   THEN /\ result' = field_name.result
                        /\ lookup' = Looked("field_name", name_index,
                               get_constant_pool_entry(class_file, name_index))
                        /\ stack' = stack
                   ELSE /\ lookup' = Looked("field_descriptor", descriptor_index,
                               get_constant_pool_entry(class_file, descriptor_index))
                        /\ IF field_descriptor.st = "fail"
                           THEN result' = field_descriptor.result /\ stack' = stack
                           ELSE /\ result' = result
                                /\ stack' = <<Frame("field", attributes_count,
                                       [access_flags |-> access_flags,
                                        name |-> field_name.value,
                                        descriptor |-> field_descriptor.value,
                                        value |-> <<>>,
                                        attributes |-> <<>>], name_index)>>
    /\ UNCHANGED <<input, overflow_checks, pc, class_file, constant_pool_count,
                   cp_left, interfaces_left, fields_left, methods_left,
                   attr_name, attr_length,
                   attr>>

\* read_attribute_info with the reader at p gets past
\* `let attr_name = self.resolve_utf8_cp_entry(..)?`
NameResolved(cf, p) ==
    /\ CanRead(p, 6)
    /\ resolve_utf8_cp_entry(cf, U16At(p), p + 6).st = "ok"

\* one call of read_attribute_info from an attribute loop (of a field, of
\* a method or of a Code attribute), and the rest of that loop's iteration;
\* a Code attribute stays open until its own loop is over
ReadAttribute ==
    /\ Active /\ stack # <<>> /\ Top.left > 0
    /\ LET r == read_attribute_info(class_file, pos) IN
       /\ pos' = r.pos
       /\ eof' = (eof \/ r.eof)
       /\ attr_name' = r.name
       /\ attr_length' = IF NameResolved(class_file, pos)
                         THEN U32At(pos + 2) ELSE attr_length
       /\ IF r.st = "fail"
          THEN result' = r.result /\ lookup' = r.lookup /\ UNCHANGED <<stack, attr>>
          ELSE IF r.st = "code"
          THEN /\ stack' = Append(stack, Frame("code", r.attr.attributes_count,
                                               r.attr, 0))
               /\ lookup' = r.lookup
               /\ UNCHANGED <<result, attr>>
          ELSE /\ attr' = r.attr
               /\ AttributeReturned(stack, r.attr, r.pos, r.lookup)
    /\ UNCHANGED <<input, overflow_checks, pc, class_file, constant_pool_count,
                   cp_left, interfaces_left, fields_left, methods_left>>

\* the loop over a Code attribute's nested attributes is over: Ok(attr)
EndCode ==
    /\ Active /\ stack # <<>> /\ Top.ctx = "code" /\ Top.left = 0
    /\ attr' = Top.obj
    /\ AttributeReturned(Pop(stack), Top.obj, pos, lookup)
    /\ UNCHANGED <<input, overflow_checks, pos, pc, eof, class_file,
                   constant_pool_count, cp_left, interfaces_left, fields_left,
                   methods_left, attr_name, attr_length>>

\* Ok(field_info); class_file.fields.push(field_info)
EndField ==
    /\ Active /\ stack # <<>> /\ Top.ctx = "field" /\ Top.left = 0
    /\ class_file' = [class_file EXCEPT !.fields = Append(@, Top.obj)]
    /\ fields_left' = fields_left - 1
    /\ stack' = <<>>
    /\ UNCHANGED <<input, overflow_checks, pos, pc, result, eof,
                   constant_pool_count, cp_left, interfaces_left, methods_left,
                   lookup, attr_name, attr_length,
                   attr>>

ReadMethodsCount ==
    /\ fields_left = 0 /\ stack = <<>>
    /\ ReadHeaderU16("fields", "methods_count", "methods")
    /\ methods_left' = IF CanRead(pos, 2) THEN U16At(pos) ELSE methods_left
    /\ UNCHANGED <<input, overflow_checks, constant_pool_count, cp_left,
                   interfaces_left, fields_left, stack, lookup, attr_name, attr_length,
                   attr>>

\* fn read_method_info up to its attribute loop
ReadMethodInfo ==
    /\ Active /\ pc = "methods" /\ methods_left > 0 /\ stack = <<>>
    /\ IF ~CanRead(pos, 8)
       THEN ShortRead /\ UNCHANGED stack
       ELSE /\ pos' = pos + 8
            /\ UNCHANGED <<eof, result>>
            /\ stack' = <<Frame("method", U16At(pos + 6),
                                [access_flags |-> U16At(pos),
                                 name_index |-> U16At(pos + 2),
                                 descriptor_index |-> U16At(pos + 4),
                                 attributes_count |-> U16At(pos + 6),
                                 attributes |-> <<>>], U16At(pos + 2))>>
    /\ UNCHANGED <<input, overflow_checks, pc, class_file, constant_pool_count,
                   cp_left, interfaces_left, fields_left, methods_left, lookup,
                   attr_name, attr_length,
                   attr>>

\* Ok(method_info); class_file.methods.push(method_info)
EndMethod ==
    /\ Active /\ stack # <<>> /\ Top.ctx = "method" /\ Top.left = 0
    /\ class_file' = [class_file EXCEPT !.methods = Append(@, Top.obj)]
    /\ methods_left' = methods_left - 1
    /\ stack' = <<>>
    /\ UNCHANGED <<input, overflow_checks, pos, pc, result, eof,
                   constant_pool_count, cp_left, interfaces_left, fields_left,
                   lookup, attr_name, attr_length,
                   attr>>

\* Ok(()) once the method loop is over
Finish ==
    /\ Active /\ pc = "methods" /\ methods_left = 0 /\ stack = <<>>
    /\ pc' = "done"
    /\ result' = Ok
    /\ UNCHANGED <<input, overflow_checks, pos, eof, class_file,
                   constant_pool_count, cp_left, interfaces_left, fields_left,
                   methods_left, stack, lookup, attr_name, attr_length,
                   attr>>

----------------------------------------------------------------------------
(* The input files                                                         *)

\* bounds of the files the model decodes
MaxEntries == 2      \* pool entries of a generated pool
MaxPoolCount == 4    \* the largest declared constant_pool_count of such a file
MaxAttrs == 2        \* attributes of a generated field or method
MaxNested == 2       \* attributes nested in a generated Code attribute
MaxMembers == 2      \* fields (methods) of a generated member table

RECURSIVE Flat(_)
Flat(ss) == IF Len(ss) = 0 THEN <<>> ELSE ss[1] \o Flat(Tail(ss))

SeqsUpTo(S, n) == UNION {[1..k -> S] : k \in 0..n}

Prefixes(f) == {SubSeq(f, 1, k) : k \in 0..Len(f)}

\* encoded constant-pool entries
Utf8Entry(text) == <<1>> \o U16Bytes(Len(text)) \o text
IntegerEntry(b) == <<3>> \o b
FloatEntry(b) == <<4>> \o b
LongEntry(b) == <<5>> \o b
DoubleEntry(b) == <<6>> \o b
IndexEntry(tag, i) == <<tag>> \o U16Bytes(i)
PairEntry(tag, i, j) == <<tag>> \o U16Bytes(i) \o U16Bytes(j)
MethodHandleEntry(kind, i) == <<15, kind>> \o U16Bytes(i)

\* one encoded entry of every tag the format defines
EveryTagEntry ==
    {Utf8Entry(<<120>>), IntegerEntry(<<0, 0, 0, 42>>),
     FloatEntry(<<63, 128, 0, 0>>), LongEntry(<<0, 0, 0, 0, 0, 0, 0, 7>>),
     DoubleEntry(<<63, 240, 0, 0, 0, 0, 0, 0>>), MethodHandleEntry(1, 1)}
    \cup {IndexEntry(t, 1) : t \in OneIndexTags}
    \cup {PairEntry(t, 1, 1) : t \in TwoIndexTags}

\* entries the generated pools are made of; <<2>> and <<0>> are tag bytes
\* the format does not define, the second Utf8 entry is not UTF-8
PoolMenu ==
    {Utf8Entry(<<120>>), IntegerEntry(<<255, 255, 255, 214>>),
     LongEntry(<<0, 0, 0, 0, 0, 0, 0, 7>>), IndexEntry(8, 1), <<2>>}

OddEntries == {<<0>>, <<21>>, <<255>>, Utf8Entry(<<192, 128>>), Utf8Entry(<<>>),
               Utf8Entry(<<195, 169>>)}

Magic == <<202, 254, 186, 190>>

Version == <<0, 0, 0, 52>>

\* magic, minor, major, constant_pool_count
Header(count) == Magic \o Version \o U16Bytes(count)

\* access_flags, this_class, super_class and interfaces
ClassPart(interfaces) ==
    <<0, 33, 0, 1, 0, 1>> \o U16Bytes(Len(interfaces)) \o Flat(interfaces)

\* a member table: its count and its members
Table(members) == U16Bytes(Len(members)) \o Flat(members)

EmptyBody == ClassPart(<<>>) \o Table(<<>>) \o Table(<<>>)

\* the pool the generated members refer to
RichPool ==
    << Utf8Entry(ConstantValueName),                 \*  1
       Utf8Entry(CodeName),                          \*  2
       Utf8Entry(LineNumberTableName),               \*  3
       Utf8Entry(SourceFileName),                    \*  4
       Utf8Entry(MethodParametersName),              \*  5
       Utf8Entry(InnerClassesName),                  \*  6
       Utf8Entry(<<86, 101, 110, 100, 111, 114>>),   \*  7 "Vendor"
       Utf8Entry(<<120>>),                           \*  8 "x"
       Utf8Entry(<<73>>),                            \*  9 "I"
       IntegerEntry(<<0, 0, 0, 42>>),                \* 10
       LongEntry(<<0, 0, 0, 0, 0, 0, 0, 7>>),        \* 11
       Utf8Entry(<<115>>),                           \* 12 "s"
       IndexEntry(8, 12),                            \* 13 String -> "s"
       PairEntry(9, 1, 1),                           \* 14 FieldRef
       IndexEntry(8, 10),                            \* 15 String -> Integer
       IndexEntry(8, 99) >>                          \* 16 String -> nothing

\* an encoded attribute: name index, declared length, body
AttrBytes(name_index, length, body) ==
    U16Bytes(name_index) \o U32Bytes(0, length) \o body

ConstantValueAttr(i) == AttrBytes(1, 2, U16Bytes(i))

CodeAttr(nested) ==
    LET body == <<0, 1, 0, 1>> \o U32Bytes(0, 1) \o <<177>>
                \o U16Bytes(1) \o <<0, 0, 0, 1, 0, 0, 0, 0>>
                \o Table(nested)
    IN  AttrBytes(2, Len(body), body)

LineNumberTableAttr == AttrBytes(3, 6, <<0, 1, 0, 0, 0, 9>>)

\* attributes a generated field carries
FieldAttrMenu ==
    {ConstantValueAttr(i) : i \in {0, 10, 11, 13, 14, 15, 16, 99}}
    \cup {AttrBytes(1, 3, <<0, 10, 0>>),     \* ConstantValue of length 3
          AttrBytes(7, 2, <<1, 2>>),         \* "Vendor"
          AttrBytes(10, 0, <<>>),            \* named by an Integer entry
          AttrBytes(0, 0, <<>>),             \* named by index 0
          AttrBytes(99, 0, <<>>),            \* named by a missing index
          AttrBytes(4, 2, <<0, 8>>)}         \* SourceFile

\* attributes nested in a generated Code attribute
NestedAttrMenu ==
    {LineNumberTableAttr,
     AttrBytes(7, 0, <<>>),
     AttrBytes(14, 0, <<>>),                 \* named by a FieldRef entry
     AttrBytes(2, 12, <<0, 0, 0, 0, 0, 0, 0, 0, 0, 0, 0, 0>>)}  \* empty Code

\* attributes a generated method carries
MethodAttrMenu ==
    {CodeAttr(<<>>), CodeAttr(<<LineNumberTableAttr>>), LineNumberTableAttr,
     AttrBytes(5, 5, <<1, 0, 8, 0, 0>>),                  \* MethodParameters
     AttrBytes(6, 10, <<0, 1, 0, 1, 0, 1, 0, 8, 0, 0>>),  \* InnerClasses
     AttrBytes(4, 2, <<0, 8>>),
     AttrBytes(7, 1, <<9>>),
     AttrBytes(13, 0, <<>>)}                              \* named by a String entry

\* an encoded field_info / method_info
Member(name_index, descriptor_index, attrs) ==
    <<0, 8>> \o U16Bytes(name_index) \o U16Bytes(descriptor_index) \o Table(attrs)

\* indices a generated field names itself and its descriptor by
IndexMenu == {0, 8, 10, 12, 17, 99}

\* a file whose pool is RichPool, declared so that this decoder's pool loop
\* reads all of it
RichFile(interfaces, fields, methods) ==
    Header(Len(RichPool) + 2) \o Flat(RichPool) \o ClassPart(interfaces)
    \o Table(fields) \o Table(methods)

PlainField == Member(8, 9, <<>>)

IntField == Member(8, 9, <<ConstantValueAttr(10)>>)

PlainMethod == Member(8, 9, <<LineNumberTableAttr>>)

\* a file laid out as the class-file format says: constant_pool_count is
\* the number of entries plus one
FormatFile ==
    Header(5)
    \o Flat(<<Utf8Entry(ConstantValueName), Utf8Entry(<<120>>),
              Utf8Entry(<<73>>), IntegerEntry(<<0, 0, 0, 42>>)>>)
    \o ClassPart(<<U16Bytes(2)>>)
    \o Table(<<Member(2, 3, <<AttrBytes(1, 2, U16Bytes(4))>>)>>)
    \o Table(<<>>)

\* files that differ in the pool and in the count declared for it
PoolFiles ==
    {Header(n) \o Flat(es) \o EmptyBody :
        n \in 0..MaxPoolCount, es \in SeqsUpTo(PoolMenu, MaxEntries)}
    \cup {Header(3) \o e \o EmptyBody : e \in EveryTagEntry \cup OddEntries}

\* files that differ in the first four bytes
MagicFiles ==
    {m \o Version \o U16Bytes(2) \o EmptyBody :
        m \in {Magic, <<202, 254, 186, 191>>, <<190, 186, 254, 202>>,
               <<0, 0, 0, 0>>, <<202, 254, 0, 0>>, <<127, 69, 76, 70>>}}

\* files cut short at every offset
CutFiles ==
    Prefixes(RichFile(<<<<1>>>>, <<IntField>>,
                      <<Member(8, 9, <<CodeAttr(<<LineNumberTableAttr>>)>>)>>))
    \cup Prefixes(FormatFile)
    \cup Prefixes(Header(4) \o IntegerEntry(<<0, 0, 0, 1>>)
                  \o LongEntry(<<0, 0, 0, 0, 0, 0, 0, 7>>))

\* files that differ in one field
FieldFiles ==
    {RichFile(<<>>, <<Member(i, j, <<>>)>>, <<>>) : i, j \in IndexMenu}
    \cup {RichFile(<<>>, <<Member(8, 9, as)>>, <<>>) :
             as \in SeqsUpTo(FieldAttrMenu, MaxAttrs)}

\* files that differ in one method
MethodFiles ==
    {RichFile(<<>>, <<>>, <<Member(8, 9, as)>>) :
        as \in SeqsUpTo(MethodAttrMenu, MaxAttrs)}

\* files that differ in the attributes nested in one Code attribute
CodeFiles ==
    {RichFile(<<>>, <<>>, <<Member(8, 9, <<CodeAttr(n)>>)>>) :
        n \in SeqsUpTo(NestedAttrMenu, MaxNested)}

\* attributes of a known kind whose declared length is not the size of
\* their body
MisdeclaredAttrMenu ==
    {AttrBytes(4, 4, <<0, 8, 0, 0>>),              \* SourceFile, 2 too many
     AttrBytes(3, 2, <<0, 1, 0, 0, 0, 9>>),        \* LineNumberTable, 4 too few
     AttrBytes(6, 0, <<0, 0>>),                    \* InnerClasses, 2 too few
     AttrBytes(2, 13, <<0, 0, 0, 0, 0, 0, 0, 0, 0, 0, 0, 0, 0>>)}  \* Code

\* files that differ in one attribute whose length is misdeclared
LengthFiles ==
    {RichFile(<<>>, <<>>, <<Member(8, 9, <<a>>), PlainMethod>>) :
        a \in MisdeclaredAttrMenu}

\* the pool of the files that are laid out as the format says
FormatPool ==
    << Utf8Entry(ConstantValueName),                 \* 1
       Utf8Entry(<<120>>),                           \* 2 "x"
       Utf8Entry(<<73>>),                            \* 3 "I"
       IntegerEntry(<<0, 0, 0, 42>>),                \* 4
       IndexEntry(8, 2) >>                           \* 5 String -> "x"

\* a well-formed file with one field, named by entry 2 and described by
\* entry 3, and no class-level attribute
FormatFieldFile(attrs) ==
    Header(Len(FormatPool) + 1) \o Flat(FormatPool) \o ClassPart(<<>>)
    \o Table(<<Member(2, 3, attrs)>>) \o Table(<<>>) \o Table(<<>>)

\* the attributes of that field, and the value the field is to carry
FormatFieldMenu ==
    {[attrs |-> <<>>, value |-> <<>>],
     [attrs |-> <<AttrBytes(1, 2, U16Bytes(4))>>, value |-> <<<<52, 50>>>>],
     [attrs |-> <<AttrBytes(1, 2, U16Bytes(5))>>, value |-> <<<<120>>>>]}

\* well-formed files that differ in the constant of their field
FormatFieldFiles == {FormatFieldFile(k.attrs) : k \in FormatFieldMenu}

\* files that differ in the tables
TableFiles ==
    {RichFile(is, fs, ms) :
        is \in SeqsUpTo({<<7>>}, MaxMembers),
        fs \in SeqsUpTo({PlainField, IntField}, MaxMembers),
        ms \in SeqsUpTo({PlainMethod}, MaxMembers)}

Inputs ==
    PoolFiles \cup MagicFiles \cup CutFiles \cup FieldFiles \cup MethodFiles
    \cup LengthFiles \cup FormatFieldFiles
    \cup CodeFiles \cup TableFiles

----------------------------------------------------------------------------
(* The specification                                                       *)

Init ==
    /\ input \in Inputs
    /\ overflow_checks \in BOOLEAN
    /\ pos = 0
    /\ pc = "magic"
    /\ result = Running
    /\ eof = FALSE
    /\ class_file = NewClassFile
    /\ constant_pool_count = 0
    /\ cp_left = 0
    /\ interfaces_left = 0
    /\ fields_left = 0
    /\ methods_left = 0
    /\ stack = <<>>
    /\ lookup = NoLookup
    /\ attr_name = NoName
    /\ attr_length = <<0, 0>>
    /\ attr = NoAttr

Next ==
    \/ ReadMagic
    \/ ReadMinorVersion
    \/ ReadMajorVersion
    \/ ReadConstantPoolCount
    \/ ReadCpInfo
    \/ ReadAccessFlags
    \/ ReadThisClass
    \/ ReadSuperClass
    \/ ReadInterfacesCount
    \/ ReadInterface
    \/ ReadFieldsCount
    \/ ReadFieldInfo
    \/ ReadAttribute
    \/ EndCode
    \/ EndField
    \/ ReadMethodsCount
    \/ ReadMethodInfo
    \/ EndMethod
    \/ Finish

Spec == Init /\ [][Next]_vars

----------------------------------------------------------------------------
(* The class-file format, for stating the claims                           *)

\* the encoded size of the pool entry whose tag byte is at offset p, per
\* the format; 0 when the tag is not one of the format's or is cut off
EntrySize(p) ==
    IF ~CanRead(p, 1) THEN 0
    ELSE LET t == input[p + 1] IN
         IF t = 1 THEN (IF CanRead(p + 1, 2) THEN 3 + U16At(p + 1) ELSE 0)
         ELSE IF t \in {3, 4} THEN 5
         ELSE IF t \in {5, 6} THEN 9
         ELSE IF t \in {7, 8, 16, 19, 20} THEN 3
         ELSE IF t \in {9, 10, 11, 12, 17, 18} THEN 5
         ELSE IF t = 15 THEN 4
         ELSE 0

\* the offset after k well-formed entries that start at p, or -1 when the
\* file does not hold k such entries there
RECURSIVE EntriesEnd(_, _)
EntriesEnd(p, k) ==
    IF k = 0 THEN p
    ELSE IF EntrySize(p) = 0 \/ ~CanRead(p, EntrySize(p)) THEN -1
    ELSE EntriesEnd(p + EntrySize(p), k - 1)

\* the offset of the first pool entry: after magic, versions and count
PoolStart == Len(Magic) + Len(Version) + 2

\* the pool loop is over and access_flags is the next thing read
PoolLoopOver == Active /\ pc = "constant_pool" /\ cp_left = 0

\* the format's index of the k-th decoded entry: a Long or a Double
\* before it takes two indices
RECURSIVE FormatIndex(_, _)
FormatIndex(pool, k) ==
    IF k = 1 THEN 1
    ELSE FormatIndex(pool, k - 1) + (IF pool[k - 1].tag \in {5, 6} THEN 2 ELSE 1)

Pool == class_file.constant_pool

----------------------------------------------------------------------------
(* The claims                                                              *)

\* C1: for a valid magic and a declared constant_pool_count N >= 1 whose
\* N-1 entries all carry known tags, when the pool loop ends the pool holds
\* N-1 entries and the cursor is at the first byte of access_flags (the
\* offset after those N-1 entries).
C1_PoolHoldsCountMinusOne ==
    (/\ PoolLoopOver
     /\ constant_pool_count >= 1
     /\ EntriesEnd(PoolStart, constant_pool_count - 1) # -1)
    => /\ Len(Pool) = constant_pool_count - 1
       /\ pos = EntriesEnd(PoolStart, constant_pool_count - 1)

\* C2: for every Long or Double entry at pool index i, a lookup of index
\* i+1 does not resolve, and the entry that follows it in the file is the
\* one a lookup of index i+2 returns.
C2_WideEntrySkipsNextIndex ==
    \A k \in 1..Len(Pool) :
        (lookup.who # "" /\ Pool[k].tag \in {5, 6}) =>
            /\ lookup.index = FormatIndex(Pool, k) + 1 => lookup.status # "some"
            /\ (lookup.index = FormatIndex(Pool, k) + 2 /\ k < Len(Pool))
                   => (lookup.status = "some" /\ lookup.slot = k + 1)

\* C3: a pool lookup never aborts, and returns an entry iff its index is
\* between 1 and the number of entries of the pool.
C3_LookupTotal ==
    lookup.who # "" =>
        /\ lookup.status # "panic"
        /\ lookup.status = "some" <=> (1 <= lookup.index /\ lookup.index <= Len(Pool))

\* C4: an attribute whose name resolves to a Utf8 text that is none of the
\* known kinds does not end the decode: read_attribute_info returns an
\* opaque attribute with that name index.
C4_UnknownAttributeKept ==
    (attr_name # NoName /\ attr_name[1] \notin KnownAttributeNames) =>
        /\ result.status \notin {"panic", "err"}
        /\ attr.kind = "Unknown"
        /\ attr.attribute_name_index = lookup.index

\* C5: a read that asks for more bytes than remain ends decode with an
\* error value (UnexpectedEof, or the IOError that wraps it), never with a
\* panic.
C5_ShortReadIsAnError ==
    eof => /\ result.status = "err"
           /\ result.error \in {"UnexpectedEof", "IOError"}

\* C6: in the pool loop a tag byte outside the 17 known tags ends decode
\* with InvalidConstantPoolTag carrying the tag and the offset of the tag
\* byte; no entry is added and the cursor stops right after the tag byte.
C6_Step ==
    (/\ Active /\ pc = "constant_pool" /\ cp_left > 0
     /\ CanRead(pos, 1)
     /\ input[pos + 1] \notin {1, 3, 4, 5, 6, 7, 8, 9, 10, 11, 12, 15, 16, 17,
                               18, 19, 20})
    => /\ result'.status = "err"
       /\ result'.error = "InvalidConstantPoolTag"
       /\ result'.code = input[pos + 1]
       /\ result'.offset = pos
       /\ pos' = pos + 1
       /\ class_file' = class_file

C6_InvalidTagRejected ==
    /\ [][C6_Step]_vars
    /\ [](result.error = "InvalidConstantPoolTag" =>
            /\ ~Active
            /\ input[result.offset + 1] = result.code
            /\ pos = result.offset + 1)

\* C6 witness: an unknown tag was rejected after an entry had been decoded
C6_Witness ==
    /\ result.error = "InvalidConstantPoolTag"
    /\ result.code = 2
    /\ Len(Pool) >= 1

\* C7: if the first four bytes differ from 0xCAFEBABE decode returns
\* InvalidMagicNumber with the value read and the cursor stays at offset 4;
\* if they are equal decode goes on to the version fields.
C7_Step ==
    (Active /\ pc = "magic" /\ CanRead(0, 4)) =>
        IF SubSeq(input, 1, 4) = <<202, 254, 186, 190>>
        THEN Active' /\ pc' = "minor_version" /\ pos' = 4
        ELSE /\ result'.status = "err"
             /\ result'.error = "InvalidMagicNumber"
             /\ result'.magic = <<input[1] * 256 + input[2],
                                  input[3] * 256 + input[4]>>
             /\ pos' = 4

C7_MagicChecked ==
    /\ [][C7_Step]_vars
    /\ [](result.error = "InvalidMagicNumber" => (~Active /\ pos = 4))

\* C7 witness: a file with another signature was rejected
C7_Witness ==
    /\ result.error = "InvalidMagicNumber"
    /\ result.magic = <<51966, 47807>>

\* C8: an attribute name index that resolves to an entry that is not Utf8
\* ends the whole decode with InvalidUtf8ConstantPoolEntry carrying that
\* index, in a field, in a method and nested in a Code attribute.
C8_NonUtf8AttributeName ==
    (/\ lookup.who = "attr_name"
     /\ lookup.status = "some"
     /\ Pool[lookup.slot].tag # 1)
    => /\ result.status = "err"
       /\ result.error = "InvalidUtf8ConstantPoolEntry"
       /\ result.code = lookup.index

\* C8 witness: the rejected name was that of an attribute nested in the
\* Code attribute of a method
C8_Witness ==
    /\ result.error = "InvalidUtf8ConstantPoolEntry"
    /\ lookup.who = "attr_name"
    /\ Len(stack) = 2 /\ stack[1].ctx = "method" /\ stack[2].ctx = "code"

\* C9: a field name, field descriptor or attribute name index that is 0 or
\* greater than the number of pool entries ends decode with
\* NoSuchConstantPoolEntry carrying that index and the current offset.
C9_MissingNameIndex ==
    (/\ lookup.who \in {"field_name", "field_descriptor", "attr_name"}
     /\ (lookup.index = 0 \/ lookup.index > Len(Pool)))
    => /\ result.status = "err"
       /\ result.error = "NoSuchConstantPoolEntry"
       /\ result.code = lookup.index
       /\ result.offset = pos

\* C10: a ConstantValue whose index resolves to an entry that is not an
\* Integer, Float, Long, Double or String ends decode with an error value:
\* no panic, and no field is produced.
C10_BadConstantKindIsAnError ==
    (/\ lookup.who = "constant_value"
     /\ lookup.status = "some"
     /\ Pool[lookup.slot].tag \notin {3, 4, 5, 6, 8})
    => /\ result.status = "err"
       /\ class_file.fields = <<>>

\* the bytes read_attribute_info consumed after the six header bytes of the
\* attribute a, going by the counts decoded into a
RECURSIVE BodySize(_)
RECURSIVE BodySizes(_)
BodySizes(as) ==
    IF as = <<>> THEN 0 ELSE 6 + BodySize(Head(as)) + BodySizes(Tail(as))

BodySize(a) ==
    CASE a.kind = "ConstantValue" -> 2
      [] a.kind = "SourceFile" -> 2
      [] a.kind = "LineNumberTable" -> 2 + 4 * a.line_number_table_length
      [] a.kind = "MethodParameters" -> 1 + 4 * a.parameters_count
      [] a.kind = "InnerClasses" -> 2 + 8 * a.number_of_classes
      [] a.kind = "Code" ->
            8 + U32AsInt(a.code_length) + 2 + 8 * a.exception_table_length
            + 2 + BodySizes(a.attributes)
      [] OTHER -> 0

KnownKinds ==
    {"ConstantValue", "Code", "LineNumberTable", "SourceFile",
     "MethodParameters", "InnerClasses"}

\* C11: an attribute of a known kind that read_attribute_info returns has
\* consumed, after its six header bytes, exactly the attribute_length it
\* declared; a body that is shorter or longer than declared is never
\* returned (decode fails with AttributeLengthMismatch instead).
C11_DeclaredLengthConsumed ==
    attr.kind \in KnownKinds => attr.attribute_length = <<0, BodySize(attr)>>

\* C12: a ConstantValue attribute whose declared length is not 2 ends the
\* decode with an error value, not an abort; one that is returned declared
\* length 2 and holds the one u16 read after the header.
C12_ConstantValueLengthIsAnError ==
    /\ (attr_name = <<ConstantValueName>> /\ attr_length # <<0, 2>>)
       => result.status = "err"
    /\ attr.kind = "ConstantValue" => attr.attribute_length = <<0, 2>>

\* the offset of the first interface index: after the entries the pool loop
\* decoded, access_flags, this_class, super_class and interfaces_count
InterfacesStart == EntriesEnd(PoolStart, Len(Pool)) + 8

\* the interface loop is over and fields_count is the next thing read
InterfaceLoopOver == Active /\ pc = "interfaces" /\ interfaces_left = 0

\* C13: an interface table with interfaces_count = n consumes exactly 2*n
\* bytes, so that fields_count is read at offset 2*n after the
\* interfaces_count field, and the n values stored are the big-endian u16
\* read at each successive pair of bytes.
C13_InterfacesAreU16 ==
    InterfaceLoopOver =>
        LET n == class_file.interfaces_count IN
        /\ pos = InterfacesStart + 2 * n
        /\ class_file.interfaces =
               [i \in 1..n |-> U16At(InterfacesStart + 2 * (i - 1))]

\* the steps of a decode in the order of the format; a step is named after
\* what pc names: the item, or the table together with the count after it
\* ("methods" is the method table and then the class-level attribute count,
\* "attributes" the class-level attribute table)
StepOrder ==
    <<"magic", "minor_version", "major_version", "constant_pool_count",
      "constant_pool", "this_class", "super_class", "interfaces_count",
      "interfaces", "fields", "methods", "attributes", "done">>

C14_Step ==
    pc' # pc =>
        \E i \in 1..(Len(StepOrder) - 1) :
            pc = StepOrder[i] /\ pc' = StepOrder[i + 1]

\* C14: the steps of a decode happen in the order magic, minor version,
\* major version, constant pool, access flags, this class, super class,
\* interfaces, fields, methods, class attributes: after the last method the
\* class-level attribute count and table are decoded before decode reports
\* success.
C14_ClassAttributesBeforeSuccess ==
    [][C14_Step]_vars /\ [](result.status = "ok" => pc = "done")

\* C15: with a declared constant_pool_count of 1 the pool loop runs zero
\* iterations: the subtraction of the loop bound neither aborts nor wraps,
\* no tag byte is read and no entry is stored, so the next read after the
\* count is access_flags.
C15_CountOneIsAnEmptyPool ==
    constant_pool_count = 1 =>
        /\ result.status # "panic" \/ pc # "constant_pool_count"
        /\ cp_left = 0
        /\ Pool = <<>>
        /\ pc = "constant_pool" => pos = PoolStart

\* C16: a decode ends in exactly one of two ways: success, with every
\* table of the model decoded in full, or the error value of the first step
\* that failed; there is no third outcome.
C16_SuccessOrErrorValue ==
    /\ result.status \in {"running", "ok", "err"}
    /\ result.status = "ok" =>
           /\ pc = "done"
           /\ Len(class_file.interfaces) = class_file.interfaces_count
           /\ Len(class_file.fields) = class_file.fields_count
           /\ Len(class_file.methods) = class_file.methods_count

\* C17: the decode of a well-formed file yields, for its field, a FieldInfo
\* whose name and descriptor are the texts of the Utf8 entries at
\* name_index and descriptor_index and whose value is the literal the
\* ConstantValue index resolves to (the decimal text of an Integer, the
\* text a String entry points at), or no value without a ConstantValue.
C17_FieldTextsResolved ==
    \A k \in FormatFieldMenu :
        (input = FormatFieldFile(k.attrs) /\ ~Active) =>
            /\ result.status = "ok"
            /\ Len(class_file.fields) = 1
            /\ class_file.fields[1].name = <<120>>
            /\ class_file.fields[1].descriptor = <<73>>
            /\ class_file.fields[1].value = k.value

\* the positions of the ConstantValue attributes in an attribute list
ConstantValuesOf(attributes) ==
    {j \in 1..Len(attributes) : attributes[j].kind = "ConstantValue"}

\* C18: every FieldInfo that read_field_info returns, and the one it is
\* building, carries at most one ConstantValue attribute, and carries a
\* value exactly when it carries that attribute: a second ConstantValue of
\* a field never yields a field whose value was overwritten.
C18_AtMostOneConstantValue ==
    \A f \in {class_file.fields[i] : i \in 1..Len(class_file.fields)}
             \cup {stack[i].obj : i \in {j \in 1..Len(stack) : stack[j].ctx = "field"}} :
        /\ Cardinality(ConstantValuesOf(f.attributes)) <= 1
        /\ f.value # <<>> <=> ConstantValuesOf(f.attributes) # {}

\* C18 witness: a field declared a second ConstantValue after one whose
\* value was set, and the decode ended there without returning the field
C18_Witness ==
    /\ result.error = "not yet implemented: only one value allowed"
    /\ stack # <<>> /\ stack[1].ctx = "field"
    /\ Cardinality(ConstantValuesOf(stack[1].obj.attributes)) = 1
    /\ stack[1].obj.value = <<<<52, 50>>>>
    /\ class_file.fields = <<>>

\* the steps up to the end of the pool loop
PoolSteps ==
    {"magic", "minor_version", "major_version", "constant_pool_count",
     "constant_pool"}

C19_Step ==
    pc \notin PoolSteps => class_file'.constant_pool = class_file.constant_pool

\* C19: once access_flags has been read the pool loop has no iteration left
\* to run, and from then on no step adds, removes or changes a pool entry,
\* whatever is decoded and whether it succeeds or fails.
C19_PoolReadOnly ==
    [][C19_Step]_vars /\ [](pc \notin PoolSteps => cp_left = 0)

\* C19 witness: with a pool of entries, a method's Code attribute was
\* entered after a field had been decoded, and the decode then failed in a
\* nested attribute
C19_Witness ==
    /\ Pool # <<>>
    /\ pc = "methods"
    /\ class_file.fields # <<>>
    /\ Len(stack) = 2
    /\ result.status # "running"

\* C20: each loop runs at most as many iterations as the count it read:
\* the entries the pool loop stored, the interfaces, fields and methods
\* their loops stored and the attributes the loops of the open method and
\* Code attribute stored are never more than the count read from the input.
C20_LoopsBoundedByCounts ==
    /\ Len(Pool) <= constant_pool_count
    /\ Len(class_file.interfaces) <= class_file.interfaces_count
    /\ Len(class_file.fields) <= class_file.fields_count
    /\ Len(class_file.methods) <= class_file.methods_count
    /\ \A i \in 1..Len(stack) :
           stack[i].ctx \in {"method", "code"} =>
               Len(stack[i].obj.attributes) <= stack[i].obj.attributes_count

\* C21: when the constant_value_index of a field's ConstantValue, or the
\* string_idx of the String entry it refers to, has no pool entry, decode
\* ends with NoSuchConstantPoolEntry carrying that index, the one that
\* failed to resolve, and not another index of the field.
C21_MissingValueIndexReported ==
    (/\ lookup.who \in {"constant_value", "string"}
     /\ lookup.status = "none")
    => /\ result.status = "err"
       /\ result.error = "NoSuchConstantPoolEntry"
       /\ result.code = lookup.index

====
